---- MODULE Spec2Model ----
(***************************************************************************)
(* Model of meta_class/models.py: the Django model declarations of a small *)
(* shop (Categoria, Produto, Cliente, Pedido, ItemPedido, AvaliacaoProduto,*)
(* Estoque, Pagamento, Promocao, Carrinho, ItemCarrinho) together with the *)
(* meaning Django gives to them: Model.save() (database constraints only), *)
(* Model.full_clean() followed by save() (field validators, choices and    *)
(* uniqueness checks first), Model.delete() (the deletion collector that   *)
(* follows every on_delete rule) and the derived properties of the models. *)
(*                                                                         *)
(* Money is kept in centavos (a Decimal with decimal_places=2 is an        *)
(* integer number of hundredths).  Primary keys are opaque: a new row gets *)
(* any key that no row of its table holds.                                 *)
(***************************************************************************)
EXTENDS Integers, FiniteSets, Sequences, TLC

VARIABLES
    users,              \* django.contrib.auth User rows: a set of ids
    categorias,         \* Categoria rows: a set of ids
    produtos,           \* Produto rows: id -> [preco, estoque, categoria]
    clientes,           \* Cliente rows: id -> [user, data_nascimento]
    pedidos,            \* Pedido rows: id -> [cliente, status]
    itens_pedido,       \* ItemPedido rows: id -> [pedido, produto]
    avaliacoes,         \* AvaliacaoProduto rows: id -> [produto, cliente, nota]
    estoques,           \* Estoque rows: id -> [produto, quantidade]
    pagamentos,         \* Pagamento rows: id -> [pedido, status]
    promocoes,          \* Promocao rows: a set of ids
    promocao_produtos,  \* rows of the Promocao.produtos through table: <<promocao, produto>>
    carrinhos,          \* Carrinho rows: id -> [cliente]
    itens_carrinho,     \* ItemCarrinho rows: id -> [carrinho, produto, subtotal]
    hoje,               \* what date.today() returns: <<year, month, day>>
    ret                 \* what the last operation gave its caller

vars == <<users, categorias, produtos, clientes, pedidos, itens_pedido, avaliacoes,
          estoques, pagamentos, promocoes, promocao_produtos, carrinhos,
          itens_carrinho, hoje, ret>>

-----------------------------------------------------------------------------
(* Bounds of the model: the rows the store may hold in all, and the last     *)
(* year the calendar reaches.                                               *)

MaxRows == 5
AnoFinal == 2024

-----------------------------------------------------------------------------
(* Tables.                                                                  *)

NULL == 0
NOT_PROVIDED == "NOT_PROVIDED"
EmptyTable == [i \in {} |-> NULL]

Insert(table, id, row) ==
    [i \in (DOMAIN table) \cup {id} |-> IF i = id THEN row ELSE table[i]]

Restrict(table, ids) == [i \in ids |-> table[i]]

\* the rows of a table other than the one being written
Others(table, id) == (DOMAIN table) \ {id}

-----------------------------------------------------------------------------
(* The declarations of models.py.                                           *)

\* MinValueValidator(limit) and MaxValueValidator(limit) fail when
\* value < limit, respectively value > limit.
MinValueValidator(value, limit) == ~(value < limit)
MaxValueValidator(value, limit) == ~(value > limit)

\* a limit of 0 where 0.01 is meant: a price of 0.00 passes
Produto_preco_validators_Zero(centavos) == ~(centavos < 0)

\* Produto.preco: validators=[MinValueValidator(0.01)].  The limit is the
\* float 0.01 and the value a Decimal; Python compares them exactly, and the
\* float nearest to 0.01 is 0.010000000000000000208..., which lies strictly
\* between 1 and 2 centavos: the value is below the limit iff centavos <= 1.
Produto_preco_validators(centavos) == ~(centavos <= 1)

\* Produto.estoque: validators=[MinValueValidator(0)]
Produto_estoque_validators(v) == MinValueValidator(v, 0)

\* the MaxValueValidator left out
AvaliacaoProduto_nota_validators_NoMax(v) == MinValueValidator(v, 1)

\* AvaliacaoProduto.nota: validators=[MinValueValidator(1), MaxValueValidator(5)]
AvaliacaoProduto_nota_validators(v) == MinValueValidator(v, 1) /\ MaxValueValidator(v, 5)

\* Estoque.quantidade: validators=[MinValueValidator(0)]
Estoque_quantidade_validators(v) == MinValueValidator(v, 0)

\* PositiveIntegerField: the column carries the database check value >= 0
PositiveIntegerField_db_check(v) == v >= 0

STATUS_PEDIDO == {"pendente", "processando", "enviado", "entregue", "cancelado"}
Pedido_status_default == "pendente"

STATUS_PAGAMENTO_CHOICES == {"pago", "pendente", "rejeitado"}
Pagamento_status_default == "pendente"

\* on_delete rules other than the declared ones
Produto_categoria_on_delete_Cascade == "CASCADE"
Cliente_user_on_delete_DoNothing == "DO_NOTHING"
Pedido_cliente_on_delete_DoNothing == "DO_NOTHING"

\* on_delete of every ForeignKey and OneToOneField
Produto_categoria_on_delete == "SET_NULL"
Cliente_user_on_delete == "CASCADE"
Pedido_cliente_on_delete == "CASCADE"
ItemPedido_pedido_on_delete == "CASCADE"
ItemPedido_produto_on_delete == "CASCADE"
AvaliacaoProduto_produto_on_delete == "CASCADE"
AvaliacaoProduto_cliente_on_delete == "CASCADE"
Estoque_produto_on_delete == "CASCADE"
Pagamento_pedido_on_delete == "CASCADE"
Carrinho_cliente_on_delete == "CASCADE"
ItemCarrinho_carrinho_on_delete == "CASCADE"
ItemCarrinho_produto_on_delete == "CASCADE"

\* a Meta without unique_together
ItemPedido_unique_together_None == <<>>

\* Meta.unique_together
ItemPedido_unique_together == <<"pedido", "produto">>
AvaliacaoProduto_unique_together == <<"produto", "cliente">>
ItemCarrinho_unique_together == <<"carrinho", "produto">>

\* related_name of the relations whose reverse accessor the properties read
ItemCarrinho_carrinho_related_name == "itens"

-----------------------------------------------------------------------------
(* What Django does with the declarations.                                  *)

DB == [users |-> users, categorias |-> categorias, produtos |-> produtos,
       clientes |-> clientes, pedidos |-> pedidos, itens_pedido |-> itens_pedido,
       avaliacoes |-> avaliacoes, estoques |-> estoques, pagamentos |-> pagamentos,
       promocoes |-> promocoes, promocao_produtos |-> promocao_produtos,
       carrinhos |-> carrinhos, itens_carrinho |-> itens_carrinho]

\* the transaction commits: the tables become those of db
Commit(db) ==
    /\ users' = db.users
    /\ categorias' = db.categorias
    /\ produtos' = db.produtos
    /\ clientes' = db.clientes
    /\ pedidos' = db.pedidos
    /\ itens_pedido' = db.itens_pedido
    /\ avaliacoes' = db.avaliacoes
    /\ estoques' = db.estoques
    /\ pagamentos' = db.pagamentos
    /\ promocoes' = db.promocoes
    /\ promocao_produtos' = db.promocao_produtos
    /\ carrinhos' = db.carrinhos
    /\ itens_carrinho' = db.itens_carrinho
    /\ hoje' = hoje

\* What the caller gets: None from save(), the labels of the models that lost
\* rows from delete(), or an exception: a ValidationError carries the keys of
\* its message_dict, an IntegrityError the kind of the constraint that failed.
Ok == [status |-> "ok", detail |-> {}]
Deleted(labels) == [status |-> "deleted", detail |-> labels]
ValidationError(keys) == [status |-> "ValidationError", detail |-> keys]
IntegrityError(kinds) == [status |-> "IntegrityError", detail |-> kinds]

\* the operation raises err and nothing is written
Rejected(err) == [db |-> DB, ret |-> err]

\* the error key, when the check failed
Err(failed, key) == IF failed THEN {key} ELSE {}

\* a unique constraint over the fields fs: no other row agrees with row on all
\* of them (no constraint when no field is named)
Unique(table, id, row, fs) ==
    \/ fs = <<>>
    \/ \A j \in Others(table, id) : \E k \in 1..Len(fs) : table[j][fs[k]] # row[fs[k]]

\* Model.save(): INSERT when no row has the key, UPDATE otherwise; only the
\* constraints of the database are checked
Save(name, id, row, db_errors) ==
    IF db_errors = {}
    THEN [db |-> [DB EXCEPT ![name] = Insert(@, id, row)], ret |-> Ok]
    ELSE Rejected(IntegrityError(db_errors))

\* Model.full_clean() and then Model.save(): clean_fields() and
\* validate_unique() raise ValidationError before anything is written
FullCleanSave(name, id, row, clean_errors, db_errors) ==
    IF clean_errors = {}
    THEN Save(name, id, row, db_errors)
    ELSE Rejected(ValidationError(clean_errors))

\* the rows of table that the collector takes along with the deleted targets
Related(table, field, deleted, on_delete) ==
    IF on_delete = "CASCADE"
    THEN {i \in DOMAIN table : table[i][field] \in deleted}
    ELSE {}

\* django.db.models.deletion.Collector.collect: everything that goes with seed
Collect(seed) ==
    LET dUsers == seed.users
        dCategorias == seed.categorias
        dPromocoes == seed.promocoes
        dProdutos == seed.produtos
            \cup Related(produtos, "categoria", dCategorias, Produto_categoria_on_delete)
        dClientes == seed.clientes
            \cup Related(clientes, "user", dUsers, Cliente_user_on_delete)
        dPedidos == seed.pedidos
            \cup Related(pedidos, "cliente", dClientes, Pedido_cliente_on_delete)
        dCarrinhos == seed.carrinhos
            \cup Related(carrinhos, "cliente", dClientes, Carrinho_cliente_on_delete)
    IN  [users |-> dUsers, categorias |-> dCategorias, promocoes |-> dPromocoes,
         produtos |-> dProdutos, clientes |-> dClientes, pedidos |-> dPedidos,
         carrinhos |-> dCarrinhos,
         itens_pedido |-> seed.itens_pedido
            \cup Related(itens_pedido, "pedido", dPedidos, ItemPedido_pedido_on_delete)
            \cup Related(itens_pedido, "produto", dProdutos, ItemPedido_produto_on_delete),
         avaliacoes |-> seed.avaliacoes
            \cup Related(avaliacoes, "produto", dProdutos, AvaliacaoProduto_produto_on_delete)
            \cup Related(avaliacoes, "cliente", dClientes, AvaliacaoProduto_cliente_on_delete),
         estoques |-> seed.estoques
            \cup Related(estoques, "produto", dProdutos, Estoque_produto_on_delete),
         pagamentos |-> seed.pagamentos
            \cup Related(pagamentos, "pedido", dPedidos, Pagamento_pedido_on_delete),
         itens_carrinho |-> seed.itens_carrinho
            \cup Related(itens_carrinho, "carrinho", dCarrinhos, ItemCarrinho_carrinho_on_delete)
            \cup Related(itens_carrinho, "produto", dProdutos, ItemCarrinho_produto_on_delete),
         promocao_produtos |->
            {pp \in promocao_produtos : pp[1] \in dPromocoes \/ pp[2] \in dProdutos}]

NoSeed == [users |-> {}, categorias |-> {}, promocoes |-> {}, produtos |-> {},
           clientes |-> {}, pedidos |-> {}, carrinhos |-> {}, itens_pedido |-> {},
           avaliacoes |-> {}, estoques |-> {}, pagamentos |-> {}, itens_carrinho |-> {}]

\* Collector.delete: SET_NULL updates first, then the collected rows go
Delete(seed) ==
    LET d == Collect(seed)
        keep == (DOMAIN produtos) \ d.produtos
    IN  [db |-> [
              users |-> users \ d.users,
              categorias |-> categorias \ d.categorias,
              produtos |-> [i \in keep |->
                  IF /\ Produto_categoria_on_delete = "SET_NULL"
                     /\ produtos[i].categoria \in d.categorias
                  THEN [produtos[i] EXCEPT !.categoria = NULL]
                  ELSE produtos[i]],
              clientes |-> Restrict(clientes, (DOMAIN clientes) \ d.clientes),
              pedidos |-> Restrict(pedidos, (DOMAIN pedidos) \ d.pedidos),
              itens_pedido |-> Restrict(itens_pedido, (DOMAIN itens_pedido) \ d.itens_pedido),
              avaliacoes |-> Restrict(avaliacoes, (DOMAIN avaliacoes) \ d.avaliacoes),
              estoques |-> Restrict(estoques, (DOMAIN estoques) \ d.estoques),
              pagamentos |-> Restrict(pagamentos, (DOMAIN pagamentos) \ d.pagamentos),
              promocoes |-> promocoes \ d.promocoes,
              promocao_produtos |-> promocao_produtos \ d.promocao_produtos,
              carrinhos |-> Restrict(carrinhos, (DOMAIN carrinhos) \ d.carrinhos),
              itens_carrinho |->
                  Restrict(itens_carrinho, (DOMAIN itens_carrinho) \ d.itens_carrinho)],
         ret |-> Deleted(
              Err(d.users # {}, "User") \cup Err(d.categorias # {}, "Categoria")
              \cup Err(d.produtos # {}, "Produto") \cup Err(d.clientes # {}, "Cliente")
              \cup Err(d.pedidos # {}, "Pedido") \cup Err(d.itens_pedido # {}, "ItemPedido")
              \cup Err(d.avaliacoes # {}, "AvaliacaoProduto")
              \cup Err(d.estoques # {}, "Estoque") \cup Err(d.pagamentos # {}, "Pagamento")
              \cup Err(d.promocoes # {}, "Promocao")
              \cup Err(d.promocao_produtos # {}, "Promocao_produtos")
              \cup Err(d.carrinhos # {}, "Carrinho")
              \cup Err(d.itens_carrinho # {}, "ItemCarrinho"))]


-----------------------------------------------------------------------------
(* The operations on each model: save(), full_clean() + save(), delete().   *)
(* Each gives the tables it leaves (db) and what its caller gets (ret).     *)

\* a reference to a row that does not exist
Dangling(ref, ids) == ref \notin ids

\* django.contrib.auth User: the identity a Cliente is linked to
User_save(id) == [db |-> [DB EXCEPT !.users = @ \cup {id}], ret |-> Ok]
User_delete(id) == Delete([NoSeed EXCEPT !.users = {id}])

Categoria_save(id) == [db |-> [DB EXCEPT !.categorias = @ \cup {id}], ret |-> Ok]
Categoria_delete(id) == Delete([NoSeed EXCEPT !.categorias = {id}])

\* Produto: categoria is a nullable ForeignKey
Produto_db_errors(id, row) ==
    Err(Dangling(row.categoria, categorias \cup {NULL}), "FOREIGN KEY")
Produto_clean_errors(id, row) ==
    Err(~Produto_preco_validators(row.preco), "preco")
    \cup Err(~Produto_estoque_validators(row.estoque), "estoque")
    \cup Err(Dangling(row.categoria, categorias \cup {NULL}), "categoria")
Produto_save(id, row) == Save("produtos", id, row, Produto_db_errors(id, row))
Produto_full_clean_save(id, row) ==
    FullCleanSave("produtos", id, row, Produto_clean_errors(id, row),
                  Produto_db_errors(id, row))
Produto_delete(id) == Delete([NoSeed EXCEPT !.produtos = {id}])

\* Cliente: user is a OneToOneField (a unique ForeignKey)
Cliente_db_errors(id, row) ==
    Err(Dangling(row.user, users), "FOREIGN KEY")
    \cup Err(~Unique(clientes, id, row, <<"user">>), "UNIQUE")
Cliente_save(id, row) == Save("clientes", id, row, Cliente_db_errors(id, row))
Cliente_delete(id) == Delete([NoSeed EXCEPT !.clientes = {id}])

\* Pedido: Model.__init__ fills a status that was not given with the default
Pedido_init(cliente, status) ==
    [cliente |-> cliente,
     status |-> IF status = NOT_PROVIDED THEN Pedido_status_default ELSE status]
Pedido_db_errors(id, row) == Err(Dangling(row.cliente, DOMAIN clientes), "FOREIGN KEY")
\* a validation that lets no order leave cancelado or entregue
Pedido_clean_errors_Terminal(id, row) ==
    Err(Dangling(row.cliente, DOMAIN clientes), "cliente")
    \cup Err(row.status \notin STATUS_PEDIDO, "status")
    \cup Err(/\ id \in DOMAIN pedidos
             /\ pedidos[id].status \in {"cancelado", "entregue"}
             /\ row.status # pedidos[id].status, "status")
Pedido_clean_errors(id, row) ==
    Err(Dangling(row.cliente, DOMAIN clientes), "cliente")
    \cup Err(row.status \notin STATUS_PEDIDO, "status")
Pedido_save(id, row) == Save("pedidos", id, row, Pedido_db_errors(id, row))
Pedido_full_clean_save(id, row) ==
    FullCleanSave("pedidos", id, row, Pedido_clean_errors(id, row), Pedido_db_errors(id, row))
Pedido_delete(id) == Delete([NoSeed EXCEPT !.pedidos = {id}])

\* ItemPedido: unique_together = ('pedido', 'produto'); validate_unique()
\* reports a unique_together under NON_FIELD_ERRORS, '__all__'
ItemPedido_db_errors(id, row) ==
    Err(Dangling(row.pedido, DOMAIN pedidos) \/ Dangling(row.produto, DOMAIN produtos),
        "FOREIGN KEY")
    \cup Err(~Unique(itens_pedido, id, row, ItemPedido_unique_together), "UNIQUE")
ItemPedido_clean_errors(id, row) ==
    Err(Dangling(row.pedido, DOMAIN pedidos), "pedido")
    \cup Err(Dangling(row.produto, DOMAIN produtos), "produto")
    \cup Err(~Unique(itens_pedido, id, row, ItemPedido_unique_together), "__all__")
ItemPedido_save(id, row) == Save("itens_pedido", id, row, ItemPedido_db_errors(id, row))
ItemPedido_full_clean_save(id, row) ==
    FullCleanSave("itens_pedido", id, row, ItemPedido_clean_errors(id, row),
                  ItemPedido_db_errors(id, row))
ItemPedido_delete(id) == Delete([NoSeed EXCEPT !.itens_pedido = {id}])

\* AvaliacaoProduto: nota is a PositiveIntegerField with two validators
AvaliacaoProduto_db_errors(id, row) ==
    Err(Dangling(row.produto, DOMAIN produtos) \/ Dangling(row.cliente, DOMAIN clientes),
        "FOREIGN KEY")
    \cup Err(~PositiveIntegerField_db_check(row.nota), "CHECK")
    \cup Err(~Unique(avaliacoes, id, row, AvaliacaoProduto_unique_together), "UNIQUE")
AvaliacaoProduto_clean_errors(id, row) ==
    Err(Dangling(row.produto, DOMAIN produtos), "produto")
    \cup Err(Dangling(row.cliente, DOMAIN clientes), "cliente")
    \cup Err(~AvaliacaoProduto_nota_validators(row.nota), "nota")
    \cup Err(~Unique(avaliacoes, id, row, AvaliacaoProduto_unique_together), "__all__")
AvaliacaoProduto_save(id, row) ==
    Save("avaliacoes", id, row, AvaliacaoProduto_db_errors(id, row))
AvaliacaoProduto_full_clean_save(id, row) ==
    FullCleanSave("avaliacoes", id, row, AvaliacaoProduto_clean_errors(id, row),
                  AvaliacaoProduto_db_errors(id, row))
AvaliacaoProduto_delete(id) == Delete([NoSeed EXCEPT !.avaliacoes = {id}])

\* Estoque: produto is a OneToOneField
Estoque_db_errors(id, row) ==
    Err(Dangling(row.produto, DOMAIN produtos), "FOREIGN KEY")
    \cup Err(~Unique(estoques, id, row, <<"produto">>), "UNIQUE")
Estoque_save(id, row) == Save("estoques", id, row, Estoque_db_errors(id, row))

\* Pagamento: pedido is a OneToOneField
Pagamento_init(pedido, status) ==
    [pedido |-> pedido,
     status |-> IF status = NOT_PROVIDED THEN Pagamento_status_default ELSE status]
Pagamento_db_errors(id, row) ==
    Err(Dangling(row.pedido, DOMAIN pedidos), "FOREIGN KEY")
    \cup Err(~Unique(pagamentos, id, row, <<"pedido">>), "UNIQUE")
Pagamento_clean_errors(id, row) ==
    Err(Dangling(row.pedido, DOMAIN pedidos) \/ ~Unique(pagamentos, id, row, <<"pedido">>),
        "pedido")
    \cup Err(row.status \notin STATUS_PAGAMENTO_CHOICES, "status")
Pagamento_save(id, row) == Save("pagamentos", id, row, Pagamento_db_errors(id, row))
Pagamento_full_clean_save(id, row) ==
    FullCleanSave("pagamentos", id, row, Pagamento_clean_errors(id, row),
                  Pagamento_db_errors(id, row))

\* Promocao and its ManyToManyField produtos
Promocao_save(id) == [db |-> [DB EXCEPT !.promocoes = @ \cup {id}], ret |-> Ok]
Promocao_produtos_add(id, produto) ==
    IF Dangling(produto, DOMAIN produtos)
    THEN Rejected(IntegrityError({"FOREIGN KEY"}))
    ELSE [db |-> [DB EXCEPT !.promocao_produtos = @ \cup {<<id, produto>>}], ret |-> Ok]
Promocao_delete(id) == Delete([NoSeed EXCEPT !.promocoes = {id}])

\* Carrinho: cliente is a OneToOneField
Carrinho_db_errors(id, row) ==
    Err(Dangling(row.cliente, DOMAIN clientes), "FOREIGN KEY")
    \cup Err(~Unique(carrinhos, id, row, <<"cliente">>), "UNIQUE")
Carrinho_save(id, row) == Save("carrinhos", id, row, Carrinho_db_errors(id, row))
Carrinho_delete(id) == Delete([NoSeed EXCEPT !.carrinhos = {id}])

\* ItemCarrinho: unique_together = ('carrinho', 'produto')
ItemCarrinho_db_errors(id, row) ==
    Err(Dangling(row.carrinho, DOMAIN carrinhos) \/ Dangling(row.produto, DOMAIN produtos),
        "FOREIGN KEY")
    \cup Err(~Unique(itens_carrinho, id, row, ItemCarrinho_unique_together), "UNIQUE")
ItemCarrinho_save(id, row) ==
    Save("itens_carrinho", id, row, ItemCarrinho_db_errors(id, row))
ItemCarrinho_delete(id) == Delete([NoSeed EXCEPT !.itens_carrinho = {id}])

-----------------------------------------------------------------------------
(* The derived properties.                                                  *)

\* Python's None, and a value that is present
None == <<>>
Some(v) == <<v>>

\* <= where < is meant
TupleLe(a, b) == a[1] < b[1] \/ (a[1] = b[1] /\ a[2] <= b[2])

\* Python's comparison of two pairs: lexicographic
TupleLt(a, b) == a[1] < b[1] \/ (a[1] = b[1] /\ a[2] < b[2])

\* a bool used as an int
BoolInt(b) == IF b THEN 1 ELSE 0

\* Cliente.idade; every date is truthy, only None is not
idade(c) ==
    LET data_nascimento == clientes[c].data_nascimento
    IN  IF data_nascimento # None
        THEN Some(hoje[1] - data_nascimento[1]
                  - BoolInt(TupleLt(<<hoje[2], hoje[3]>>,
                                    <<data_nascimento[2], data_nascimento[3]>>)))
        ELSE None

\* the dictionary keyed from 0
nota_extenso_FromZero(nota) ==
    CASE nota = 0 -> "Péssimo"
      [] nota = 1 -> "Ruim"
      [] nota = 2 -> "Regular"
      [] nota = 3 -> "Bom"
      [] nota = 4 -> "Excelente"
      [] OTHER -> "Não Avaliado"

\* AvaliacaoProduto.nota_extenso: notas.get(self.nota, _('Não Avaliado')); with
\* no translation catalogue in the repository gettext gives the msgid back
nota_extenso(nota) ==
    CASE nota = 1 -> "Péssimo"
      [] nota = 2 -> "Ruim"
      [] nota = 3 -> "Regular"
      [] nota = 4 -> "Bom"
      [] nota = 5 -> "Excelente"
      [] OTHER -> "Não Avaliado"

\* the name of the reverse accessor a ForeignKey puts on its target
ReverseAccessor(related_name, model) ==
    IF related_name = NOT_PROVIDED THEN model \o "_set" ELSE related_name

\* the related managers an instance of Carrinho has
Carrinho_related_managers ==
    {ReverseAccessor(ItemCarrinho_carrinho_related_name, "itemcarrinho")}

Return(v) == [raised |-> "", value |-> v]
Raise(e) == [raised |-> e, value |-> 0]

RECURSIVE SumSubtotal(_, _)
\* total = 0; for item in items: total += item.subtotal
SumSubtotal(table, items) ==
    IF items = {} THEN 0
    ELSE LET i == CHOOSE x \in items : TRUE
         IN  table[i].subtotal + SumSubtotal(table, items \ {i})

\* Carrinho.total_carrinho reads self.itemcarrinho_set
total_carrinho(c) ==
    IF "itemcarrinho_set" \in Carrinho_related_managers
    THEN Return(SumSubtotal(itens_carrinho,
                            {i \in DOMAIN itens_carrinho : itens_carrinho[i].carrinho = c}))
    ELSE Raise("AttributeError")

-----------------------------------------------------------------------------
(* The calendar behind date.today().                                        *)

IsLeap(y) == (y % 4 = 0 /\ y % 100 # 0) \/ y % 400 = 0

DaysInMonth(y, m) ==
    IF m = 2 THEN (IF IsLeap(y) THEN 29 ELSE 28)
    ELSE IF m \in {4, 6, 9, 11} THEN 30 ELSE 31

NextDay(d) ==
    IF d[3] < DaysInMonth(d[1], d[2]) THEN <<d[1], d[2], d[3] + 1>>
    ELSE IF d[2] < 12 THEN <<d[1], d[2] + 1, 1>>
    ELSE <<d[1] + 1, 1, 1>>

\* a day passes
AvancaDia ==
    /\ NextDay(hoje)[1] <= AnoFinal
    /\ hoje' = NextDay(hoje)
    /\ UNCHANGED <<users, categorias, produtos, clientes, pedidos, itens_pedido,
                   avaliacoes, estoques, pagamentos, promocoes, promocao_produtos,
                   carrinhos, itens_carrinho, ret>>

-----------------------------------------------------------------------------
(* The store and its callers.                                               *)

Hoje0 == <<2023, 12, 30>>

Init ==
    /\ users = {}
    /\ categorias = {}
    /\ produtos = EmptyTable
    /\ clientes = EmptyTable
    /\ pedidos = EmptyTable
    /\ itens_pedido = EmptyTable
    /\ avaliacoes = EmptyTable
    /\ estoques = EmptyTable
    /\ pagamentos = EmptyTable
    /\ promocoes = {}
    /\ promocao_produtos = {}
    /\ carrinhos = EmptyTable
    /\ itens_carrinho = EmptyTable
    /\ hoje = Hoje0
    /\ ret = Ok

\* the primary keys a table may hold, and the single key of the smaller runs
Ids == {1, 2}
One == {1}

Rows ==
    Cardinality(users) + Cardinality(categorias) + Cardinality(DOMAIN produtos)
    + Cardinality(DOMAIN clientes) + Cardinality(DOMAIN pedidos)
    + Cardinality(DOMAIN itens_pedido) + Cardinality(DOMAIN avaliacoes)
    + Cardinality(DOMAIN estoques) + Cardinality(DOMAIN pagamentos)
    + Cardinality(promocoes) + Cardinality(DOMAIN carrinhos)
    + Cardinality(DOMAIN itens_carrinho)

\* the keys a caller may write: any key while the store has room, and only
\* the keys of the rows held (updates) once it is full
Pool(held) == IF Rows < MaxRows THEN Ids ELSE held \cap Ids

\* the operation takes effect
Do(r) == Commit(r.db) /\ ret' = r.ret

\* The callers: each draws the key, the references and the values of a write
\* from the sets it is given (a reference may name a row that does not exist),
\* and deletes a row that exists.
SaveUser(ids) == \E id \in ids : Do(User_save(id))
DeleteUser(ids) == \E id \in ids \cap users : Do(User_delete(id))
SaveCategoria(ids) == \E id \in ids : Do(Categoria_save(id))
DeleteCategoria(ids) == \E id \in ids \cap categorias : Do(Categoria_delete(id))
SaveProduto(ids, precos, estqs, cats) ==
    \E id \in ids, p \in precos, e \in estqs, c \in cats :
        Do(Produto_save(id, [preco |-> p, estoque |-> e, categoria |-> c]))
FullCleanSaveProduto(ids, precos, estqs, cats) ==
    \E id \in ids, p \in precos, e \in estqs, c \in cats :
        Do(Produto_full_clean_save(id, [preco |-> p, estoque |-> e, categoria |-> c]))
DeleteProduto(ids) == \E id \in ids \cap DOMAIN produtos : Do(Produto_delete(id))
SaveCliente(ids, us, datas) ==
    \E id \in ids, u \in us, d \in datas :
        Do(Cliente_save(id, [user |-> u, data_nascimento |-> d]))
DeleteCliente(ids) == \E id \in ids \cap DOMAIN clientes : Do(Cliente_delete(id))
SavePedido(ids, cs, sts) ==
    \E id \in ids, c \in cs, st \in sts :
        Do(Pedido_save(id, Pedido_init(c, st)))
FullCleanSavePedido(ids, cs, sts) ==
    \E id \in ids, c \in cs, st \in sts :
        Do(Pedido_full_clean_save(id, Pedido_init(c, st)))
DeletePedido(ids) == \E id \in ids \cap DOMAIN pedidos : Do(Pedido_delete(id))
SaveItemPedido(ids, os, ps) ==
    \E id \in ids, o \in os, p \in ps :
        Do(ItemPedido_save(id, [pedido |-> o, produto |-> p]))
FullCleanSaveItemPedido(ids, os, ps) ==
    \E id \in ids, o \in os, p \in ps :
        Do(ItemPedido_full_clean_save(id, [pedido |-> o, produto |-> p]))
DeleteItemPedido(ids) == \E id \in ids \cap DOMAIN itens_pedido : Do(ItemPedido_delete(id))
SaveAvaliacao(ids, ps, cs, notas) ==
    \E id \in ids, p \in ps, c \in cs, n \in notas :
        Do(AvaliacaoProduto_save(id, [produto |-> p, cliente |-> c, nota |-> n]))
FullCleanSaveAvaliacao(ids, ps, cs, notas) ==
    \E id \in ids, p \in ps, c \in cs, n \in notas :
        Do(AvaliacaoProduto_full_clean_save(id, [produto |-> p, cliente |-> c, nota |-> n]))
DeleteAvaliacao(ids) == \E id \in ids \cap DOMAIN avaliacoes : Do(AvaliacaoProduto_delete(id))
SaveEstoque(ids, ps) ==
    \E id \in ids, p \in ps :
        Do(Estoque_save(id, [produto |-> p, quantidade |-> 0]))
SavePagamento(ids, os, sts) ==
    \E id \in ids, o \in os, st \in sts :
        Do(Pagamento_save(id, Pagamento_init(o, st)))
FullCleanSavePagamento(ids, os, sts) ==
    \E id \in ids, o \in os, st \in sts :
        Do(Pagamento_full_clean_save(id, Pagamento_init(o, st)))
SavePromocao(ids) == \E id \in ids : Do(Promocao_save(id))
AddPromocaoProduto(ids, ps) ==
    \E id \in ids \cap promocoes, p \in ps : Do(Promocao_produtos_add(id, p))
DeletePromocao(ids) == \E id \in ids \cap promocoes : Do(Promocao_delete(id))
SaveCarrinho(ids, cs) ==
    \E id \in ids, c \in cs :
        Do(Carrinho_save(id, [cliente |-> c]))
DeleteCarrinho(ids) == \E id \in ids \cap DOMAIN carrinhos : Do(Carrinho_delete(id))
SaveItemCarrinho(ids, cs, ps, subs) ==
    \E id \in ids, c \in cs, p \in ps, sb \in subs :
        Do(ItemCarrinho_save(id, [carrinho |-> c, produto |-> p, subtotal |-> sb]))
DeleteItemCarrinho(ids) == \E id \in ids \cap DOMAIN itens_carrinho : Do(ItemCarrinho_delete(id))

\* The whole schema: every model created through save() and deleted through
\* delete(), with valid values.
Next ==
    \/ SaveUser(Pool(users)) \/ DeleteUser(Ids)
    \/ SaveCategoria(Pool(categorias)) \/ DeleteCategoria(Ids)
    \/ SaveProduto(Pool(DOMAIN produtos), {1000}, {0}, {NULL} \cup Ids)
    \/ DeleteProduto(Ids)
    \/ SaveCliente(Pool(DOMAIN clientes), Ids, {None}) \/ DeleteCliente(Ids)
    \/ SavePedido(Pool(DOMAIN pedidos), Ids, {NOT_PROVIDED}) \/ DeletePedido(Ids)
    \/ SaveItemPedido(Pool(DOMAIN itens_pedido), Ids, Ids)
    \/ SaveAvaliacao(Pool(DOMAIN avaliacoes), Ids, Ids, {5})
    \/ SaveEstoque(Pool(DOMAIN estoques), Ids)
    \/ SavePagamento(Pool(DOMAIN pagamentos), Ids, {NOT_PROVIDED})
    \/ SavePromocao(Pool(promocoes) \cap One) \/ AddPromocaoProduto(One, Ids)
    \/ DeletePromocao(One)
    \/ SaveCarrinho(Pool(DOMAIN carrinhos), Ids) \/ DeleteCarrinho(Ids)
    \/ SaveItemCarrinho(Pool(DOMAIN itens_carrinho), Ids, Ids, {500})

Spec == Init /\ [][Next]_vars

\* Customers: two customers with their orders, reviews and carts.
NextCliente ==
    \/ SaveUser(Ids) \/ DeleteUser(Ids)
    \/ SaveCliente(Ids, Ids, {None}) \/ DeleteCliente(Ids)
    \/ SaveProduto(One, {1000}, {0}, {NULL})
    \/ SavePedido(Ids, Ids, {NOT_PROVIDED}) \/ DeletePedido(Ids)
    \/ SaveAvaliacao(Ids, One, Ids, {5})
    \/ SaveCarrinho(Ids, Ids)

SpecCliente == Init /\ [][NextCliente]_vars

\* Order items: full_clean() + save() and save() alone, over two orders and
\* two products of one customer.
NextItens ==
    \/ SaveUser(One) \/ SaveCliente(One, One, {None})
    \/ SavePedido(Ids, One, {NOT_PROVIDED}) \/ DeletePedido(Ids)
    \/ SaveProduto(Ids, {1000}, {0}, {NULL}) \/ DeleteProduto(Ids)
    \/ SaveItemPedido(Ids, Ids, Ids) \/ FullCleanSaveItemPedido(Ids, Ids, Ids)
    \/ DeleteItemPedido(Ids)

SpecItens == Init /\ [][NextItens]_vars

\* The catalogue: categories and products, written with every kind of price
\* and stock, validated or not.
Precos == {-1, 0, 1, 2}
Estoques == {-1, 0, 3}

NextCatalogo ==
    \/ SaveCategoria(Ids) \/ DeleteCategoria(Ids)
    \/ SaveProduto(Ids, Precos, Estoques, Ids)
    \/ FullCleanSaveProduto(Ids, Precos, Estoques, Ids)
    \/ DeleteProduto(Ids)

SpecCatalogo == Init /\ [][NextCatalogo]_vars

\* Reviews: every kind of rating, validated or not.
Notas == {-1, 0, 1, 2, 3, 4, 5, 6, 99}

NextAvaliacao ==
    \/ SaveUser(One) \/ SaveCliente(One, One, {None}) \/ DeleteCliente(One)
    \/ SaveProduto(Ids, {1000}, {0}, {NULL})
    \/ SaveAvaliacao(Ids, Ids, One, Notas)
    \/ FullCleanSaveAvaliacao(Ids, Ids, One, Notas)
    \/ DeleteAvaliacao(Ids)

SpecAvaliacao == Init /\ [][NextAvaliacao]_vars

\* Status: orders and payments written with every status, validated or not.
NextStatus ==
    \/ SaveUser(One) \/ SaveCliente(One, One, {None})
    \/ SavePedido(Ids, One, STATUS_PEDIDO \cup {NOT_PROVIDED, "devolvido"})
    \/ FullCleanSavePedido(Ids, One, STATUS_PEDIDO \cup {NOT_PROVIDED, "devolvido"})
    \/ SavePagamento(One, Ids, STATUS_PAGAMENTO_CHOICES \cup {NOT_PROVIDED, "estornado"})
    \/ FullCleanSavePagamento(One, Ids,
                              STATUS_PAGAMENTO_CHOICES \cup {NOT_PROVIDED, "estornado"})

SpecStatus == Init /\ [][NextStatus]_vars

\* Carts: items with two subtotals.
Subtotais == {500, 2000}

NextCarrinho ==
    \/ SaveUser(Ids) \/ SaveCliente(Ids, Ids, {None}) \/ DeleteCliente(Ids)
    \/ SaveCarrinho(Ids, Ids)
    \/ SaveProduto(Ids, {1000}, {0}, {NULL})
    \/ SaveItemCarrinho(Ids, Ids, Ids, Subtotais) \/ DeleteItemCarrinho(Ids)

SpecCarrinho == Init /\ [][NextCarrinho]_vars

\* Ages: customers with and without a birth date, as the days pass.
Nascimentos ==
    {None, <<1999, 12, 31>>, <<2000, 2, 29>>, <<2000, 6, 15>>, <<2000, 6, 16>>,
     <<2000, 12, 30>>, <<2024, 6, 20>>}

NextIdade ==
    \/ SaveUser(One) \/ SaveCliente(One, One, Nascimentos) \/ DeleteCliente(One)
    \/ AvancaDia

SpecIdade == Init /\ [][NextIdade]_vars

-----------------------------------------------------------------------------
(* The properties of the schema.                                            *)

\* C1 as stated: after any sequence of successful Product writes every stored
\* Product has price > 0 and stock >= 0.
C1_EveryStoredProdutoValid ==
    \A p \in DOMAIN produtos : produtos[p].preco > 0 /\ produtos[p].estoque >= 0

\* C1, amended: a Product write that is validated (full_clean() before save())
\* with price <= 0 or stock < 0 is rejected with a ValidationError and leaves
\* the store as it was, and a validated write that succeeds stores price > 0
\* and stock >= 0.
C1_ValidatedProdutoWrite ==
    \A id \in Ids, p \in Precos, e \in Estoques, c \in Ids :
        LET r == Produto_full_clean_save(id, [preco |-> p, estoque |-> e, categoria |-> c])
        IN  /\ (p <= 0 \/ e < 0) => r.ret.status = "ValidationError" /\ r.db = DB
            /\ r.ret.status = "ok" =>
                   r.db.produtos[id].preco > 0 /\ r.db.produtos[id].estoque >= 0

\* a validated write was refused for its price while a validated product is stored
C1_Witness ==
    /\ ret.status = "ValidationError"
    /\ "preco" \in ret.detail
    /\ \E p \in DOMAIN produtos : produtos[p].preco = 2 /\ produtos[p].estoque = 3

\* C2 as stated: every stored Review has rating in 1..5.
C2_EveryStoredNotaInRange ==
    \A a \in DOMAIN avaliacoes : avaliacoes[a].nota \in 1..5

\* C2, amended: a Review write that is validated (full_clean() before save())
\* with a rating outside 1..5 is rejected with a ValidationError naming nota
\* before anything is persisted, and a validated write that succeeds stores a
\* rating in 1..5.
C2_ValidatedAvaliacaoWrite ==
    \A id \in Ids, p \in Ids, c \in One, n \in Notas :
        LET r == AvaliacaoProduto_full_clean_save(
                     id, [produto |-> p, cliente |-> c, nota |-> n])
        IN  /\ n \notin 1..5 =>
                   /\ r.ret.status = "ValidationError"
                   /\ "nota" \in r.ret.detail
                   /\ r.db = DB
            /\ r.ret.status = "ok" => r.db.avaliacoes[id].nota \in 1..5

\* a validated review was refused for its rating while a review is stored
C2_Witness ==
    /\ ret.status = "ValidationError"
    /\ "nota" \in ret.detail
    /\ \E a \in DOMAIN avaliacoes : avaliacoes[a].nota = 5

\* C3: no two OrderItems share (order, product), and inserting a second
\* OrderItem for the pair of a stored one fails with a uniqueness violation
\* (IntegrityError from save(), ValidationError from full_clean()) and leaves
\* the store unchanged.
C3_UniqueOrderItem ==
    /\ \A i, j \in DOMAIN itens_pedido :
           i # j => \/ itens_pedido[i].pedido # itens_pedido[j].pedido
                    \/ itens_pedido[i].produto # itens_pedido[j].produto
    /\ \A id \in Ids \ DOMAIN itens_pedido, j \in DOMAIN itens_pedido :
           LET row == [pedido |-> itens_pedido[j].pedido,
                       produto |-> itens_pedido[j].produto]
               saved == ItemPedido_save(id, row)
               cleaned == ItemPedido_full_clean_save(id, row)
           IN  /\ saved.ret = IntegrityError({"UNIQUE"})
               /\ saved.db = DB
               /\ cleaned.ret = ValidationError({"__all__"})
               /\ cleaned.db = DB

\* the insert of a second item for the pair of the only stored item was refused
C3_Witness ==
    /\ ret = IntegrityError({"UNIQUE"})
    /\ Cardinality(DOMAIN itens_pedido) = 1

\* C4: deleting a Category deletes no Product: each Product of the category
\* stays with its category reference empty and its other fields unchanged,
\* and the Products of other categories are untouched.
C4_CategoriaDeleteNullifies ==
    \A c \in categorias :
        LET r == Categoria_delete(c)
        IN  /\ c \notin r.db.categorias
            /\ r.db.produtos =
                   [p \in DOMAIN produtos |->
                       IF produtos[p].categoria = c
                       THEN [preco |-> produtos[p].preco,
                             estoque |-> produtos[p].estoque,
                             categoria |-> NULL]
                       ELSE produtos[p]]

\* a category was deleted: a product is left without category (callers create
\* every product in a category), another still is in its category
C4_Witness ==
    /\ ret = Deleted({"Categoria"})
    /\ \E p \in DOMAIN produtos : produtos[p].categoria = NULL
    /\ \E p \in DOMAIN produtos : produtos[p].categoria \in categorias

\* C5: deleting a Customer deletes that customer's Orders, Reviews and Cart: no
\* row references the deleted customer, and the rows of other customers remain.
C5_ClienteDeleteCascades ==
    \A c \in DOMAIN clientes :
        LET r == Cliente_delete(c).db
            others(table) == {i \in DOMAIN table : table[i].cliente # c}
        IN  /\ r.clientes = Restrict(clientes, (DOMAIN clientes) \ {c})
            /\ r.pedidos = Restrict(pedidos, others(pedidos))
            /\ r.avaliacoes = Restrict(avaliacoes, others(avaliacoes))
            /\ r.carrinhos = Restrict(carrinhos, others(carrinhos))
            /\ \A o \in DOMAIN r.pedidos : r.pedidos[o].cliente # c
            /\ \A a \in DOMAIN r.avaliacoes : r.avaliacoes[a].cliente # c
            /\ \A k \in DOMAIN r.carrinhos : r.carrinhos[k].cliente # c

\* a customer was deleted with an order, a review and a cart, and the order,
\* the review and the cart of another customer are still there
C5_Witness ==
    /\ ret = Deleted({"Cliente", "Pedido", "AvaliacaoProduto", "Carrinho"})
    /\ DOMAIN clientes # {}
    /\ DOMAIN pedidos # {}
    /\ DOMAIN avaliacoes # {}
    /\ DOMAIN carrinhos # {}

\* C6: for every Cart, total_carrinho returns the sum of the subtotals of the
\* CartItems of that cart (0 for an empty cart).
C6_TotalIsSum ==
    \A c \in DOMAIN carrinhos :
        total_carrinho(c) =
            Return(SumSubtotal(itens_carrinho,
                               {i \in DOMAIN itens_carrinho : itens_carrinho[i].carrinho = c}))

\* the date b moved k years on
AddYears(b, k) == <<b[1] + k, b[2], b[3]>>
\* the date a is not after the date b
DateLe(a, b) ==
    \/ a[1] < b[1]
    \/ a[1] = b[1] /\ a[2] < b[2]
    \/ a[1] = b[1] /\ a[2] = b[2] /\ a[3] <= b[3]
\* the anniversaries of b that t has reached
WholeYears(b, t) == Cardinality({k \in 1..150 : DateLe(AddYears(b, k), t)})

\* C7: with a birth date b not after today, idade is the number of whole years
\* elapsed (on 2024-06-15: 23 for a birth on 2000-06-16, 24 for 2000-06-15);
\* without a birth date it is None.
C7_IdadeWholeYears ==
    \A c \in DOMAIN clientes :
        LET b == clientes[c].data_nascimento
        IN  /\ b = None => idade(c) = None
            /\ (b # None /\ DateLe(b, hoje)) => idade(c) = Some(WholeYears(b, hoje))
            /\ (hoje = <<2024, 6, 15>> /\ b = <<2000, 6, 16>>) => idade(c) = Some(23)
            /\ (hoje = <<2024, 6, 15>> /\ b = <<2000, 6, 15>>) => idade(c) = Some(24)

\* on 2024-06-15 a customer born on 2000-06-15 has turned 24
C7_Witness ==
    /\ hoje = <<2024, 6, 15>>
    /\ \E c \in DOMAIN clientes :
           clientes[c].data_nascimento = <<2000, 6, 15>> /\ idade(c) = Some(24)

\* the labels of spec.md for the ratings 1..5
EnglishLabels == <<"Terrible", "Bad", "Average", "Good", "Excellent">>
\* the labels of models.py for the ratings 1..5
Labels == <<"Péssimo", "Ruim", "Regular", "Bom", "Excelente">>

\* C8 as stated: nota_extenso maps 1..5 to "Terrible", "Bad", "Average",
\* "Good", "Excellent" and every other rating to "Not rated".
C8_EnglishLabel ==
    \A a \in DOMAIN avaliacoes :
        LET n == avaliacoes[a].nota
        IN  nota_extenso(n) = IF n \in 1..5 THEN EnglishLabels[n] ELSE "Not rated"

\* C8, amended: nota_extenso maps 1..5 to "Péssimo", "Ruim", "Regular", "Bom",
\* "Excelente" and every other rating to "Não Avaliado".
C8_Label ==
    \A a \in DOMAIN avaliacoes :
        LET n == avaliacoes[a].nota
        IN  /\ n \in 1..5 => nota_extenso(n) = Labels[n]
            /\ n \notin 1..5 => nota_extenso(n) = "Não Avaliado"

\* a review saved without validation holds the rating 99, another the rating 5
C8_Witness ==
    /\ \E a \in DOMAIN avaliacoes : avaliacoes[a].nota = 99
    /\ \E a \in DOMAIN avaliacoes : avaliacoes[a].nota = 5

\* C9: no transition rule: from any status of a stored Order or Payment an
\* update to any value of its enumeration is accepted, validated or not, and
\* an Order or Payment created without a status starts as pendente.
C9_AnyStatusToAny ==
    /\ \A o \in DOMAIN pedidos, st \in STATUS_PEDIDO :
           LET row == [pedidos[o] EXCEPT !.status = st]
           IN  /\ Pedido_save(o, row).ret = Ok
               /\ Pedido_save(o, row).db.pedidos[o].status = st
               /\ Pedido_full_clean_save(o, row).ret = Ok
               /\ Pedido_full_clean_save(o, row).db.pedidos[o].status = st
    /\ \A g \in DOMAIN pagamentos, st \in STATUS_PAGAMENTO_CHOICES :
           LET row == [pagamentos[g] EXCEPT !.status = st]
           IN  /\ Pagamento_save(g, row).ret = Ok
               /\ Pagamento_save(g, row).db.pagamentos[g].status = st
               /\ Pagamento_full_clean_save(g, row).ret = Ok
               /\ Pagamento_full_clean_save(g, row).db.pagamentos[g].status = st
    /\ \A o \in Ids \ DOMAIN pedidos, c \in DOMAIN clientes :
           LET r == Pedido_full_clean_save(o, Pedido_init(c, NOT_PROVIDED))
           IN  r.ret = Ok /\ r.db.pedidos[o].status = "pendente"
    /\ \A g \in One \ DOMAIN pagamentos, o \in DOMAIN pedidos :
           LET r == Pagamento_full_clean_save(g, Pagamento_init(o, NOT_PROVIDED))
           IN  r.ret = Ok /\ r.db.pagamentos[g].status = "pendente"

\* an order is cancelado, another entregue, and the payment of one is rejeitado
C9_Witness ==
    /\ \E o \in DOMAIN pedidos : pedidos[o].status = "cancelado"
    /\ \E o \in DOMAIN pedidos : pedidos[o].status = "entregue"
    /\ \E g \in DOMAIN pagamentos : pagamentos[g].status = "rejeitado"
    /\ ret = Ok

\* C10: referential integrity: no stored row holds a reference to a row that
\* is not stored; the only reference that may be empty is Produto.categoria.
C10_ReferentialIntegrity ==
    /\ \A p \in DOMAIN produtos : produtos[p].categoria \in categorias \cup {NULL}
    /\ \A c \in DOMAIN clientes : clientes[c].user \in users
    /\ \A o \in DOMAIN pedidos : pedidos[o].cliente \in DOMAIN clientes
    /\ \A i \in DOMAIN itens_pedido :
           /\ itens_pedido[i].pedido \in DOMAIN pedidos
           /\ itens_pedido[i].produto \in DOMAIN produtos
    /\ \A a \in DOMAIN avaliacoes :
           /\ avaliacoes[a].produto \in DOMAIN produtos
           /\ avaliacoes[a].cliente \in DOMAIN clientes
    /\ \A e \in DOMAIN estoques : estoques[e].produto \in DOMAIN produtos
    /\ \A g \in DOMAIN pagamentos : pagamentos[g].pedido \in DOMAIN pedidos
    /\ \A pp \in promocao_produtos : pp[1] \in promocoes /\ pp[2] \in DOMAIN produtos
    /\ \A k \in DOMAIN carrinhos : carrinhos[k].cliente \in DOMAIN clientes
    /\ \A i \in DOMAIN itens_carrinho :
           /\ itens_carrinho[i].carrinho \in DOMAIN carrinhos
           /\ itens_carrinho[i].produto \in DOMAIN produtos

\* the delete of a User took its Customer, the Order and the OrderItem along,
\* and the Product of the item is still stored
C10_Witness ==
    /\ ret = Deleted({"User", "Cliente", "Pedido", "ItemPedido"})
    /\ DOMAIN produtos # {}


====
